---- MODULE Spec2Model ----
(***************************************************************************)
(* Model of libccsoft's convolutional encoder (CC_Encoding_FA.h) and of    *)
(* its reliability matrix (CC_ReliabilityMatrix.cpp).                      *)
(*                                                                         *)
(* Vectors and arrays are TLA+ sequences: the C++ element v[i] is v[i+1].  *)
(* Register and symbol arithmetic is done modulo the width of the          *)
(* unsigned types T_Register and T_IOSymbol.                               *)
(***************************************************************************)
EXTENDS Integers, Sequences, FiniteSets, TLC

\* sizeof(T_Register)*8: bit width of the register type (template parameter)
RegBits == 3

\* sizeof(T_IOSymbol)*8: bit width of the I/O symbol type (template parameter)
SymBits == 3

\* largest nb_symbols_log2 a matrix is constructed with
MaxLog2 == 1

\* largest message_length a matrix is constructed with
MaxLen == 3

\* how many unindexed ingestion calls are made on a matrix
MaxCalls == 5

\* largest message_length of a matrix that is deinterleaved
MaxPermLen == 4

\* largest message_length of a matrix that is copied
MaxCopyLen == 3

RegMod == 2 ^ RegBits

SymMod == 2 ^ SymBits

VARIABLES
    \* ---- CC_Encoding_FA object ----
    N_k,                       \* template parameter N_k
    k, n, m,                   \* members k, n, m
    constraints,               \* member constraints (copy of _constraints)
    genpoly_representations,   \* member genpoly_representations
    registers,                 \* member registers (std::array<T_Register, N_k>)
    ctor_error,                \* message of the exception thrown by the constructor, "" if none
    \* ---- what the caller of the encoder sees ----
    call,                      \* the last call made on the encoder and its arguments
    out_symbol,                \* out_symbol written by the last call, 0 when it was no encode
    ret,                       \* value returned by the last call, FALSE when it was no encode
    \* ---- history of the encoder's run ----
    pre_registers,             \* registers before the last call when it was an encode, else the registers
    pre_out,                   \* out_symbol before the last call when it was an encode, else 0
    zero_run,                  \* only all-zero symbols were encoded since the last clear
    golden_pos,                \* how many symbols of GoldenIn were encoded since the last clear, -1 if another run
    replay,                    \* "same"/"other" when the last two calls were encode(x), encode(y, no_step) with y = x/y # x; else "none"
    replay_base,               \* then the registers before encode(x); else the registers
    \* ---- a decoder forking the encoder ----
    captured,                  \* the caller's copy of get_registers(), <<>> before any
    phase,                     \* "live", "forked" (after the copy), "restored" (after set_registers of the copy)
    fork_registers,            \* registers of the run that goes on directly from the captured state
    fork_out,                  \* its last output
    fork_moved,                \* set_registers(captured) changed the registers
    \* ---- CC_ReliabilityMatrix object ----
    _nb_symbols_log2,
    _nb_symbols,
    _message_length,
    _message_symbol_count,     \* the ingestion cursor
    _matrix,                   \* the buffer: cell (ir, ic) is _matrix[ic*_nb_symbols + ir + 1]
    \* ---- history of the matrix ----
    mat_call,                  \* the last call made on the matrix and its arguments
    nb_unindexed,              \* how many enter_symbol_data(data) and enter_erasure() calls were made
    \* ---- what the caller of the matrix sees ----
    found,                     \* what the last call returned: value, i_row, i_col; NoFound when it returned nothing
    deint_run,                 \* how many deinterleave() calls were the last calls, up to 2
    deint_base,                \* the buffer before them, <<>> when deint_run = 0
    touched,                   \* the indexes of _matrix[] the last call read or wrote
    \* ---- a second CC_ReliabilityMatrix, copy-constructed from the first ----
    relmat_copy,               \* its members; its _matrix is the allocation it points to
    copy_heap,                 \* the floats of the allocation made by the copy constructor
    copy_call                  \* the last call of the two objects' run: on which object, what

encVars == <<N_k, k, n, m, constraints, genpoly_representations, registers, ctor_error>>

callVars == <<call, out_symbol, ret>>

histVars == <<pre_registers, pre_out, zero_run, golden_pos, replay, replay_base>>

forkVars == <<captured, phase, fork_registers, fork_out, fork_moved>>

permVars == <<deint_run, deint_base>>

copyVars == <<relmat_copy, copy_heap, copy_call>>

auxVars == <<found, permVars, touched, copyVars>>

matVars == <<_nb_symbols_log2, _nb_symbols, _message_length, _message_symbol_count, _matrix,
             mat_call, nb_unindexed, auxVars>>

vars == <<encVars, callVars, histVars, forkVars, matVars>>

----------------------------------------------------------------------------
\* Bit operations on unsigned integers

\* bit i of x
BitAt(x, i) == (x \div (2 ^ i)) % 2

RECURSIVE bit_and_loop(_, _)
\* a & b, bit by bit
bit_and_loop(a, b) ==
    IF a = 0 \/ b = 0 THEN 0
    ELSE (a % 2) * (b % 2) + 2 * bit_and_loop(a \div 2, b \div 2)

\* a & b for every pair of register values
BitAndTable == [a \in 0..(RegMod - 1) |-> [b \in 0..(RegMod - 1) |-> bit_and_loop(a, b)]]

\* a & b in T_Register
BitAnd(a, b) == BitAndTable[a][b]

\* a ^ b on single bits
BitXor(a, b) == (a + b) % 2

----------------------------------------------------------------------------
\* CC_Encoding_FA::xorbits

RECURSIVE xorbits_loop(_, _)
\* while(w_reg != 0) { nb_ones += w_reg % 2; w_reg /= 2; }
xorbits_loop(w_reg, nb_ones) ==
    IF w_reg = 0 THEN nb_ones
    ELSE xorbits_loop(w_reg \div 2, nb_ones + (w_reg % 2))

\* a mutation of xorbits: the last bit alone
xorbits_lsb(reg) == (reg % 2) = 1

\* return (nb_ones % 2) == 1, for every register value
xorbits_table == [reg \in 0..(RegMod - 1) |-> (xorbits_loop(reg, 0) % 2) = 1]

xorbits(reg) == xorbits_table[reg]

----------------------------------------------------------------------------
\* CC_Encoding_FA::clear

\* a mutation of clear: the first register alone is zeroed
clear_first(regs) == [i \in DOMAIN regs |-> IF i = 1 THEN 0 ELSE regs[i]]

\* std::fill(registers.begin(), registers.end(), 0)
clear(regs) == [i \in DOMAIN regs |-> 0]

----------------------------------------------------------------------------
\* CC_Encoding_FA::encode

\* a mutation of flush_bit: no_step is ignored
flush_bit_never(reg, no_step) == reg

\* if (no_step) registers[ki] >>= 1
flush_bit(reg, no_step) == IF no_step THEN reg \div 2 ELSE reg

\* a mutation of make_room: the register is cut to one bit less than its width
make_room_short(reg) == (reg * 2) % (RegMod \div 2)

\* registers[ki] <<= 1, in T_Register
make_room(reg) == (reg * 2) % RegMod

\* registers[ki] += w_in & 1, in T_Register
insert_bit(reg, w_in) == (reg + (w_in % 2)) % RegMod

RECURSIVE load_registers(_, _, _, _, _)
\* for (ki=0; ki<k; ki++) { flush; make room; insert; w_in >>= 1; }
load_registers(regs, w_in, ki, kk, no_step) ==
    IF ki >= kk THEN regs
    ELSE load_registers(
            [regs EXCEPT ![ki + 1] = insert_bit(make_room(flush_bit(regs[ki + 1], no_step)), w_in)],
            w_in \div 2, ki + 1, kk, no_step)

RECURSIVE symbol_bit_loop(_, _, _, _, _, _)
\* for (ki=0; ki<k; ki++) symbol_bit ^= xorbits(registers[ki] & genpoly[ki][ni]) ? 1 : 0
symbol_bit_loop(regs, genpoly, ni, ki, kk, symbol_bit) ==
    IF ki >= kk THEN symbol_bit
    ELSE symbol_bit_loop(regs, genpoly, ni, ki + 1, kk,
            BitXor(symbol_bit,
                   IF xorbits(BitAnd(regs[ki + 1], genpoly[ki + 1][ni + 1])) THEN 1 ELSE 0))

RECURSIVE out_symbol_loop(_, _, _, _, _, _)
\* for (ni=0; ni<n; ni++) { symbol_bit = ...; out_symbol += symbol_bit << ni; }, in T_IOSymbol
out_symbol_loop(regs, genpoly, ni, nn, kk, out) ==
    IF ni >= nn THEN out
    ELSE out_symbol_loop(regs, genpoly, ni + 1, nn, kk,
            (out + symbol_bit_loop(regs, genpoly, ni, 0, kk, 0) * (2 ^ ni)) % SymMod)

\* encode(in_symbol, out_symbol, no_step): the registers, the output and the return value
encode(regs, genpoly, kk, nn, in_symbol, no_step) ==
    LET loaded == load_registers(regs, in_symbol, 0, kk, no_step)
    IN  [registers |-> loaded,
         out_symbol |-> out_symbol_loop(loaded, genpoly, 0, nn, kk, 0),
         ret |-> TRUE]

----------------------------------------------------------------------------
\* CC_Encoding_FA::get_registers, set_registers

\* a mutation of set_registers: the last register is not copied
set_registers_but_last(regs, _registers) ==
    [i \in DOMAIN regs |-> IF i < Len(regs) \/ i = 1 THEN _registers[i] ELSE regs[i]]

\* registers = _registers
set_registers(regs, _registers) == _registers

\* return registers (the caller copies the array)
get_registers(regs) == regs

----------------------------------------------------------------------------
\* CC_Encoding_FA::CC_Encoding_FA

ErrConstraintsSize == "Constraints size is not valid"

ErrInputBits == "Number of input bits not supported by I/O symbol type"

ErrGenpolySize == "Generator polynomial representations size error"

ErrConstraintTooLarge == "One constraint size is too large for the size of the registers"

ErrOutputsNotLarger == "The number of outputs must be larger than the number of inputs"

ErrOutputBits == "Number of output bits not supported by I/O symbol type"

\* a mutation of min_outputs: the last vector's size is kept
min_outputs_last(min_nb_outputs, size) == size

\* if (genpoly_representations[ci].size() < min_nb_outputs) min_nb_outputs = ...
min_outputs(min_nb_outputs, size) == IF size < min_nb_outputs THEN size ELSE min_nb_outputs

\* if (constraints[ci] > m) m = constraints[ci]
max_constraint(mm, constraint) == IF constraint > mm THEN constraint ELSE mm

RECURSIVE ctor_loop(_, _, _, _, _)
\* for (ci=0; ci < constraints.size(); ci++) { ... }: the exception thrown, or min_nb_outputs and m
ctor_loop(ci, min_nb_outputs, mm, _constraints, _genpoly) ==
    IF ci >= Len(_constraints)
    THEN [error |-> "", min_nb_outputs |-> min_nb_outputs, m |-> mm]
    ELSE IF _constraints[ci + 1] > RegBits
    THEN [error |-> ErrConstraintTooLarge, min_nb_outputs |-> min_nb_outputs, m |-> mm]
    ELSE ctor_loop(ci + 1,
                   min_outputs(min_nb_outputs, Len(_genpoly[ci + 1])),
                   max_constraint(mm, _constraints[ci + 1]),
                   _constraints, _genpoly)

\* what std::array<T_Register, N_k> may hold before clear(): nothing is written to it
IndeterminateRegisters(Nk) == {[i \in 1..Nk |-> v] : v \in {0, 1, RegMod - 1}}

\* the object left when the constructor throws: no encoder exists
ctor_throw(Nk, msg) == [error |-> msg, k |-> Nk, n |-> 0, m |-> 0, registers |-> <<>>]

\* a mutation of ctor_check_outputs: n = k is let through
ctor_check_outputs_weak(Nk, nn, mm, cleared) ==
    IF nn < Nk THEN ctor_throw(Nk, ErrOutputsNotLarger)
    ELSE IF nn > SymBits THEN ctor_throw(Nk, ErrOutputBits)
    ELSE [error |-> "", k |-> Nk, n |-> nn, m |-> mm, registers |-> cleared]

\* n = min_nb_outputs; if (n <= k) throw; if (n > sizeof(T_IOSymbol)*8) throw
ctor_check_outputs(Nk, nn, mm, cleared) ==
    IF nn <= Nk THEN ctor_throw(Nk, ErrOutputsNotLarger)
    ELSE IF nn > SymBits THEN ctor_throw(Nk, ErrOutputBits)
    ELSE [error |-> "", k |-> Nk, n |-> nn, m |-> mm, registers |-> cleared]

\* the constructor, check by check in the order of the code; raw is what the
\* registers hold when the object is allocated
ctor(Nk, _constraints, _genpoly, raw) ==
    IF Len(_constraints) # Nk THEN ctor_throw(Nk, ErrConstraintsSize)
    ELSE IF Nk > SymBits THEN ctor_throw(Nk, ErrInputBits)
    ELSE IF Len(_genpoly) # Nk THEN ctor_throw(Nk, ErrGenpolySize)
    ELSE LET cleared == clear(raw)
             loop == ctor_loop(0, Len(_genpoly[1]), 0, _constraints, _genpoly)
         IN  IF loop.error # "" THEN ctor_throw(Nk, loop.error)
             ELSE ctor_check_outputs(Nk, loop.min_nb_outputs, loop.m, cleared)

----------------------------------------------------------------------------
\* float values: exact fractions <<numerator, denominator>> in lowest terms,
\* denominator > 0.

Abs(x) == IF x < 0 THEN -x ELSE x

RECURSIVE Gcd(_, _)
Gcd(a, b) == IF b = 0 THEN a ELSE Gcd(b, a % b)

Fraction(num, den) ==
    LET g == Gcd(Abs(num), Abs(den))
        sign == IF den < 0 THEN -1 ELSE 1
    IN  <<(sign * num) \div g, (sign * den) \div g>>

\* 0.0
F0 == <<0, 1>>

\* a + b
FAdd(a, b) == Fraction(a[1] * b[2] + b[1] * a[2], a[2] * b[2])

\* a / b, b # 0.0
FDiv(a, b) == Fraction(a[1] * b[2], a[2] * b[1])

----------------------------------------------------------------------------
\* CC_ReliabilityMatrix::CC_ReliabilityMatrix(nb_symbols_log2, message_length)

\* new float[_nb_symbols*_message_length], every cell set to 0.0
new_matrix(nb_symbols, message_length) == [i \in 1..(nb_symbols * message_length) |-> F0]

----------------------------------------------------------------------------
\* CC_ReliabilityMatrix::enter_symbol_data, enter_erasure

\* memcpy(&_matrix[index*_nb_symbols], symbol_data, _nb_symbols*sizeof(float))
memcpy_column(matrix, nb_symbols, index, symbol_data) ==
    [i \in DOMAIN matrix |->
        IF index * nb_symbols < i /\ i <= index * nb_symbols + nb_symbols
        THEN symbol_data[i - index * nb_symbols]
        ELSE matrix[i]]

RECURSIVE erase_loop(_, _, _, _)
\* for (i=0; i<_nb_symbols; i++) _matrix[index*_nb_symbols + i] = 0.0
erase_loop(matrix, nb_symbols, index, i) ==
    IF i >= nb_symbols THEN matrix
    ELSE erase_loop([matrix EXCEPT ![index * nb_symbols + i + 1] = F0], nb_symbols, index, i + 1)

\* a mutation of column_in_range: the column after the last is let through
column_in_range_incl(index, message_length) == index <= message_length

\* if (_message_symbol_count < _message_length), if (message_symbol_index < _message_length)
column_in_range(index, message_length) == index < message_length

\* a mutation of count_after_indexed: the cursor moves on
count_after_indexed_moved(count) == count + 1

\* the indexed calls leave _message_symbol_count alone
count_after_indexed(count) == count

\* enter_symbol_data(symbol_data): the buffer and the cursor it leaves
enter_symbol_data(matrix, count, message_length, nb_symbols, symbol_data) ==
    IF column_in_range(count, message_length)
    THEN [matrix |-> memcpy_column(matrix, nb_symbols, count, symbol_data), count |-> count + 1]
    ELSE [matrix |-> matrix, count |-> count]

\* enter_symbol_data(message_symbol_index, symbol_data)
enter_symbol_data_at(matrix, count, message_length, nb_symbols, index, symbol_data) ==
    IF index < message_length
    THEN [matrix |-> memcpy_column(matrix, nb_symbols, index, symbol_data),
          count |-> count_after_indexed(count)]
    ELSE [matrix |-> matrix, count |-> count_after_indexed(count)]

\* enter_erasure()
enter_erasure(matrix, count, message_length, nb_symbols) ==
    IF column_in_range(count, message_length)
    THEN [matrix |-> erase_loop(matrix, nb_symbols, count, 0), count |-> count + 1]
    ELSE [matrix |-> matrix, count |-> count]

\* enter_erasure(message_symbol_index)
enter_erasure_at(matrix, count, message_length, nb_symbols, index) ==
    IF index < message_length
    THEN [matrix |-> erase_loop(matrix, nb_symbols, index, 0), count |-> count_after_indexed(count)]
    ELSE [matrix |-> matrix, count |-> count_after_indexed(count)]

----------------------------------------------------------------------------
\* CC_ReliabilityMatrix::normalize

\* a mutation of divisor: the sum of the column being summed
divisor_current(col_sum, last_col_sum) == col_sum

\* _matrix[(ic-1)*_nb_symbols + ir] /= last_col_sum
divisor(col_sum, last_col_sum) == last_col_sum

RECURSIVE normalize_rows(_, _, _, _, _, _, _)
\* for (ir = 0; ir < _nb_symbols; ir++) { sum column ic; divide column ic-1 }
normalize_rows(matrix, nb_symbols, message_length, ic, ir, col_sum, last_col_sum) ==
    IF ir >= nb_symbols THEN [matrix |-> matrix, col_sum |-> col_sum]
    ELSE LET summed == IF ic < message_length
                       THEN FAdd(col_sum, matrix[ic * nb_symbols + ir + 1])
                       ELSE col_sum
             divided == IF ic > 0 /\ last_col_sum # F0
                        THEN [matrix EXCEPT ![(ic - 1) * nb_symbols + ir + 1] =
                                  FDiv(@, divisor(summed, last_col_sum))]
                        ELSE matrix
         IN  normalize_rows(divided, nb_symbols, message_length, ic, ir + 1, summed, last_col_sum)

\* a mutation of normalize_steps: the step after the last column is not made
normalize_steps_short(message_length) == message_length

\* ic < _message_length+1: one step more than there are columns
normalize_steps(message_length) == message_length + 1

RECURSIVE normalize_cols(_, _, _, _, _)
\* for (ic = 0; ic < _message_length+1; ic++) { last_col_sum = col_sum; col_sum = 0; ... }
normalize_cols(matrix, nb_symbols, message_length, ic, col_sum) ==
    IF ic >= normalize_steps(message_length) THEN matrix
    ELSE LET rows == normalize_rows(matrix, nb_symbols, message_length, ic, 0, F0, col_sum)
         IN  normalize_cols(rows.matrix, nb_symbols, message_length, ic + 1, rows.col_sum)

\* normalize()
normalize(matrix, nb_symbols, message_length) ==
    normalize_cols(matrix, nb_symbols, message_length, 0, F0)

----------------------------------------------------------------------------
\* CC_ReliabilityMatrix::find_max

\* a <= b
FLe(a, b) == a[1] * b[2] <= b[1] * a[2]

\* a < b
FLt(a, b) == a[1] * b[2] < b[1] * a[2]

\* a mutation of cell_beats_max: the first of equal cells is kept
cell_beats_max_strict(cell, max) == FLt(max, cell)

\* if (_matrix[ic*_nb_symbols + ir] >= max)
cell_beats_max(cell, max) == FLe(max, cell)

RECURSIVE find_max_rows(_, _, _, _, _)
\* for (ir = 0; ir < _nb_symbols; ir++): best holds max, i_row, i_col
find_max_rows(matrix, nb_symbols, ic, ir, best) ==
    IF ir >= nb_symbols THEN best
    ELSE LET cell == matrix[ic * nb_symbols + ir + 1]
         IN  find_max_rows(matrix, nb_symbols, ic, ir + 1,
                           IF cell_beats_max(cell, best.value)
                           THEN [value |-> cell, row |-> ir, col |-> ic]
                           ELSE best)

RECURSIVE find_max_cols(_, _, _, _, _)
\* for (ic = 0; ic < _message_length; ic++)
find_max_cols(matrix, nb_symbols, message_length, ic, best) ==
    IF ic >= message_length THEN best
    ELSE find_max_cols(matrix, nb_symbols, message_length, ic + 1,
                       find_max_rows(matrix, nb_symbols, ic, 0, best))

\* find_max(i_row, i_col): max = 0.0, i_row = 0, i_col = 0, then the scan
find_max(matrix, nb_symbols, message_length) ==
    find_max_cols(matrix, nb_symbols, message_length, 0, [value |-> F0, row |-> 0, col |-> 0])

----------------------------------------------------------------------------
\* CC_ReliabilityMatrix::find_max_in_col

\* _matrix[index]: a cell of the buffer, or, for an index past its end,
\* whatever the memory beyond the buffer holds
read_matrix(matrix, index, beyond) ==
    IF index + 1 \in DOMAIN matrix THEN matrix[index + 1] ELSE beyond

\* a mutation of cell_below: the bound itself is let through
cell_below_or_at(cell, prev_max) == FLe(cell, prev_max)

\* _matrix[i_col*_nb_symbols + ir] < prev_max
cell_below(cell, prev_max) == FLt(cell, prev_max)

RECURSIVE find_max_in_col_rows(_, _, _, _, _, _, _)
\* for (ir = 0; ir < _nb_symbols; ir++): best holds max, i_row
find_max_in_col_rows(matrix, nb_symbols, i_col, prev_max, ir, best, beyond) ==
    IF ir >= nb_symbols THEN best
    ELSE LET cell == read_matrix(matrix, i_col * nb_symbols + ir, beyond)
         IN  find_max_in_col_rows(matrix, nb_symbols, i_col, prev_max, ir + 1,
                                  IF cell_beats_max(cell, best.value) /\ cell_below(cell, prev_max)
                                  THEN [value |-> cell, row |-> ir, col |-> i_col]
                                  ELSE best,
                                  beyond)

\* find_max_in_col(i_row, i_col, prev_max): max = 0.0, i_row = 0, then the scan
find_max_in_col(matrix, nb_symbols, i_col, prev_max, beyond) ==
    find_max_in_col_rows(matrix, nb_symbols, i_col, prev_max, 0,
                         [value |-> F0, row |-> 0, col |-> i_col], beyond)

----------------------------------------------------------------------------
\* CC_ReliabilityMatrix::deinterleave

RECURSIVE FloorLog2(_)
\* (unsigned int) (log(x)/log(2)), x >= 1
FloorLog2(x) == IF x <= 1 THEN 0 ELSE 1 + FloorLog2(x \div 2)

\* what (unsigned int) (log(0)/log(2)) + 1 may give: the conversion of
\* -infinity to unsigned int is undefined
UndefinedIndexSizes == {1, 2}

\* index_size = (unsigned int) (log(_message_length)/log(2)) + 1
index_sizes(message_length) ==
    IF message_length = 0 THEN UndefinedIndexSizes ELSE {FloorLog2(message_length) + 1}

RECURSIVE reverse_loop(_, _, _)
\* for (; iv; iv >>= 1) { new_index |= iv & 1; new_index <<= 1; s--; }
reverse_loop(iv, new_index, s) ==
    IF iv = 0 THEN [new_index |-> new_index, s |-> s]
    ELSE reverse_loop(iv \div 2,
                      (IF new_index % 2 = 1 THEN new_index ELSE new_index + (iv % 2)) * 2,
                      s - 1)

\* a mutation of leading_zeroes: the leading zeroes of i are not accounted for
leading_zeroes_dropped(new_index, s) == new_index

\* new_index <<= s
leading_zeroes(new_index, s) == new_index * 2 ^ s

\* a mutation of undo_last_shift: the last shift is kept
undo_last_shift_never(new_index) == new_index

\* new_index >>= 1
undo_last_shift(new_index) == new_index \div 2

\* the bit reversal of i within index_size bits
reversed_index(i, index_size) ==
    LET looped == reverse_loop(i, 0, index_size)
    IN  leading_zeroes(undo_last_shift(looped.new_index), looped.s)

\* &(tmp_matrix[index*_nb_symbols]), _nb_symbols values
column_at(matrix, nb_symbols, index) == [r \in 1..nb_symbols |-> matrix[index * nb_symbols + r]]

RECURSIVE deinterleave_loop(_, _, _, _, _, _, _)
\* for (i = 0; (i < index_max) && (old_index < _message_length); i++)
deinterleave_loop(matrix, tmp_matrix, nb_symbols, message_length, index_size, i, old_index) ==
    IF ~(i < 2 ^ index_size /\ old_index < message_length) THEN matrix
    ELSE LET new_index == reversed_index(i, index_size)
         IN  IF new_index < message_length
             THEN deinterleave_loop(
                      memcpy_column(matrix, nb_symbols, old_index,
                                    column_at(tmp_matrix, nb_symbols, new_index)),
                      tmp_matrix, nb_symbols, message_length, index_size, i + 1, old_index + 1)
             ELSE deinterleave_loop(matrix, tmp_matrix, nb_symbols, message_length,
                                    index_size, i + 1, old_index)

\* deinterleave(): tmp_matrix is a copy of the buffer
deinterleave(matrix, nb_symbols, message_length, index_size) ==
    deinterleave_loop(matrix, matrix, nb_symbols, message_length, index_size, 0, 0)

----------------------------------------------------------------------------
\* CC_ReliabilityMatrix::CC_ReliabilityMatrix(const CC_ReliabilityMatrix& relmat)

\* a mutation of copy_allocation: the copy points to the buffer of relmat
copy_allocation_shared == "source"

\* _matrix = new float[_nb_symbols*_message_length]: the copy points to an
\* allocation of its own
copy_allocation == "copy"

\* a mutation of copy_cursor: the cursor of relmat is taken over
copy_cursor_of_source(source_count) == source_count

\* _message_symbol_count(0)
copy_cursor(source_count) == 0

\* memcpy(_matrix, relmat.get_raw_matrix(), _nb_symbols*_message_length*sizeof(float))
memcpy_matrix(source, nb_symbols, message_length) ==
    [i \in 1..(nb_symbols * message_length) |-> source[i]]

\* the members of the copy
copy_members(nb_symbols_log2, nb_symbols, message_length, source_count) ==
    [made |-> TRUE, fresh |-> TRUE,
     _nb_symbols_log2 |-> nb_symbols_log2,
     _nb_symbols |-> nb_symbols,
     _message_length |-> message_length,
     _message_symbol_count |-> copy_cursor(source_count),
     _matrix |-> copy_allocation]

----------------------------------------------------------------------------
\* The indexes at which the methods read and write _matrix[]

\* _matrix[index*_nb_symbols + i] for i = 0.._nb_symbols-1
column_cells(nb_symbols, index) == {index * nb_symbols + i : i \in 0..(nb_symbols - 1)}

\* _matrix[ic*_nb_symbols + ir] for ic = 0.._message_length-1
all_cells(nb_symbols, message_length) ==
    UNION {column_cells(nb_symbols, ic) : ic \in 0..(message_length - 1)}

\* enter_symbol_data(symbol_data), enter_erasure(): the cursor's column, under the guard
unindexed_cells(count, message_length, nb_symbols) ==
    IF column_in_range(count, message_length) THEN column_cells(nb_symbols, count) ELSE {}

\* enter_symbol_data(index, symbol_data), enter_erasure(index): column index, under the guard
indexed_cells(index, message_length, nb_symbols) ==
    IF index < message_length THEN column_cells(nb_symbols, index) ELSE {}

\* normalize(): column ic is read when ic < _message_length, column ic-1 is
\* written when ic > 0, for ic = 0.._message_length
normalize_cells(nb_symbols, message_length) ==
    UNION {column_cells(nb_symbols, ic) : ic \in {c \in 0..message_length : c < message_length}}
    \cup UNION {column_cells(nb_symbols, ic - 1) : ic \in {c \in 0..message_length : c > 0}}

\* find_max_in_col(i_row, i_col, prev_max): column i_col, whatever i_col is
find_max_in_col_cells(nb_symbols, i_col) == column_cells(nb_symbols, i_col)

\* deinterleave(): the buffer is copied whole; old_index and new_index are
\* below _message_length where they are used
deinterleave_cells(nb_symbols, message_length) == all_cells(nb_symbols, message_length)

----------------------------------------------------------------------------
\* The matrix as constructed, and the arguments of its calls

NoMatCall(op) == [op |-> op, index |-> 0, symbol_data |-> <<>>]

NoFound == [value |-> F0, row |-> 0, col |-> 0]

\* no copy is made: the members of the copy before its construction
NoCopy == [made |-> FALSE, fresh |-> FALSE, _nb_symbols_log2 |-> 0, _nb_symbols |-> 0,
           _message_length |-> 0, _message_symbol_count |-> 0, _matrix |-> "none"]

NoCopyCall(on, op) == [on |-> on, op |-> op, symbol_data |-> <<>>]

\* around the matrix nothing has happened yet
AuxInit ==
    /\ found = NoFound
    /\ deint_run = 0
    /\ deint_base = <<>>
    /\ touched = {}
    /\ relmat_copy = NoCopy
    /\ copy_heap = <<>>
    /\ copy_call = NoCopyCall("source", "ctor")

MatrixInit(nb_symbols_log2, message_length) ==
    /\ AuxInit
    /\ _nb_symbols_log2 = nb_symbols_log2
    /\ _nb_symbols = 2 ^ nb_symbols_log2
    /\ _message_length = message_length
    /\ _message_symbol_count = 0
    /\ _matrix = new_matrix(2 ^ nb_symbols_log2, message_length)
    /\ mat_call = NoMatCall("ctor")
    /\ nb_unindexed = 0

\* the values of one message position handed to enter_symbol_data: growing
\* with the symbol, or of alternating sign
SymbolDataArgs ==
    { [ir \in 1.._nb_symbols |-> <<ir + 1, 1>>],
      [ir \in 1.._nb_symbols |-> <<(-1) ^ ir, 1>>] }

\* the column indexes handed to the indexed calls: those of the matrix and one beyond
IndexArgs == 0.._message_length

----------------------------------------------------------------------------
\* The arguments the encoder is constructed with

\* values of the template parameter N_k
N_kValues == {1, 2, SymBits + 1}

\* lengths of the vectors handed to the constructor
ArgLens == 0..3

\* register lengths handed to the constructor
ConstraintVals == {2, 3, RegBits + 1}

\* sizes of the generator vectors handed to the constructor
TapLens == {1, 2, SymBits, SymBits + 1}

\* generators of the rate 1/2 code (7,5)
GoldenTaps == <<7, 5>>

\* the input bits of the regression vector
GoldenIn == <<1, 0, 1, 1>>

\* generator polynomial of input i (from 1) for output j (from 1)
Tap(i, j) ==
    IF i = 1 /\ j <= Len(GoldenTaps) THEN GoldenTaps[j]
    ELSE (3 * i + 5 * j + 2 ^ (RegBits - 1)) % RegMod

\* sequences of length l of elements of S, and the sequences of one element repeated SymBits+1 times
ArgSeqs(S) ==
    UNION {[1..l -> S] : l \in ArgLens} \cup {[i \in 1..(SymBits + 1) |-> e] : e \in S}

ConstraintArgs == ArgSeqs(ConstraintVals)

GenpolyArgs == {[i \in 1..Len(ls) |-> [j \in 1..ls[i] |-> Tap(i, j)]] : ls \in ArgSeqs(TapLens)}

\* input symbols handed to encode: every value of the k input bits, and two
\* symbols with the bit above them set
InSymbols == 0..(2 ^ k) \cup {2 ^ (k + 1) - 1}

----------------------------------------------------------------------------
\* Initial states: the constructor has run

NoCall(op) == [op |-> op, in_symbol |-> 0, no_step |-> FALSE]

EncoderInit(Nk, _constraints, _genpoly) ==
    \E raw \in IndeterminateRegisters(Nk) :
    LET made == ctor(Nk, _constraints, _genpoly, raw)
    IN  /\ N_k = Nk
        /\ constraints = _constraints
        /\ genpoly_representations = _genpoly
        /\ k = made.k
        /\ n = made.n
        /\ m = made.m
        /\ registers = made.registers
        /\ ctor_error = made.error
        /\ call = NoCall("ctor")
        /\ out_symbol = 0
        /\ ret = FALSE
        /\ pre_registers = made.registers
        /\ pre_out = 0
        /\ zero_run = TRUE
        /\ golden_pos = 0
        /\ replay = "none"
        /\ replay_base = made.registers
        /\ captured = <<>>
        /\ phase = "live"
        /\ fork_registers = <<>>
        /\ fork_out = 0
        /\ fork_moved = FALSE

\* the specifications of the encoder hold one matrix that no call is made on
MatrixIdle == MatrixInit(0, 1)

Init ==
    /\ \E Nk \in N_kValues, _constraints \in ConstraintArgs, _genpoly \in GenpolyArgs :
          EncoderInit(Nk, _constraints, _genpoly)
    /\ MatrixIdle

\* the encoders a decoder forks: the (7,5) code, and a code of two inputs and three outputs
ForkEncoders ==
    { <<1, <<3>>, <<GoldenTaps>> >>,
      <<2, <<3, 2>>, <<[j \in 1..3 |-> Tap(1, j)], [j \in 1..3 |-> Tap(2, j)]>> >> }

InitFork ==
    /\ \E e \in ForkEncoders : EncoderInit(e[1], e[2], e[3])
    /\ MatrixIdle

\* the specification of the matrix holds one encoder that no call is made on
EncoderIdle == EncoderInit(1, <<3>>, <<GoldenTaps>>)

InitMatrix ==
    /\ EncoderIdle
    /\ \E nb_symbols_log2 \in 0..MaxLog2, message_length \in 0..MaxLen :
          MatrixInit(nb_symbols_log2, message_length)

Constructed == ctor_error = ""

----------------------------------------------------------------------------
\* Calls on a constructed encoder

\* what the caller and the history keep of a call that is no encode: the registers it leaves
Remember(op, zero, regs) ==
    /\ call' = NoCall(op)
    /\ out_symbol' = 0
    /\ ret' = FALSE
    /\ pre_registers' = regs
    /\ pre_out' = 0
    /\ zero_run' = zero
    /\ replay' = "none"
    /\ replay_base' = regs

Clear ==
    /\ Constructed
    /\ registers' = clear(registers)
    /\ Remember("clear", TRUE, clear(registers))
    /\ golden_pos' = 0
    /\ UNCHANGED <<N_k, k, n, m, constraints, genpoly_representations, ctor_error>>
    /\ UNCHANGED <<forkVars, matVars>>

Encode(in_symbol, no_step) ==
    \E done \in {encode(registers, genpoly_representations, k, n, in_symbol, no_step)},
       replayed \in {call.op = "encode" /\ ~call.no_step /\ no_step} :
        /\ Constructed
        /\ registers' = done.registers
        /\ out_symbol' = done.out_symbol
        /\ ret' = done.ret
        /\ call' = [op |-> "encode", in_symbol |-> in_symbol, no_step |-> no_step]
        /\ pre_registers' = registers
        /\ pre_out' = out_symbol
        /\ zero_run' = (zero_run /\ in_symbol = 0)
        /\ golden_pos' = IF /\ ~no_step
                            /\ golden_pos >= 0
                            /\ golden_pos < Len(GoldenIn)
                            /\ in_symbol = GoldenIn[golden_pos + 1]
                         THEN golden_pos + 1 ELSE -1
        /\ replay' = IF ~replayed THEN "none"
                     ELSE IF in_symbol = call.in_symbol THEN "same" ELSE "other"
        /\ replay_base' = IF replayed THEN pre_registers ELSE done.registers
        /\ UNCHANGED <<N_k, k, n, m, constraints, genpoly_representations, ctor_error>>
        /\ UNCHANGED <<forkVars, matVars>>

EncodeCall == \E in_symbol \in InSymbols, no_step \in BOOLEAN : Encode(in_symbol, no_step)

\* get_registers() whose result the caller does not keep
GetRegisters ==
    /\ Constructed
    /\ Remember("get_registers", zero_run, registers)
    /\ UNCHANGED <<encVars, golden_pos, forkVars, matVars>>

\* set_registers(_registers)
SetRegisters(_registers) ==
    /\ Constructed
    /\ registers' = set_registers(registers, _registers)
    /\ Remember("set_registers", FALSE, set_registers(registers, _registers))
    /\ golden_pos' = -1
    /\ UNCHANGED <<N_k, k, n, m, constraints, genpoly_representations, ctor_error>>
    /\ UNCHANGED <<forkVars, matVars>>

\* arrays handed to set_registers: each register all ones, or its top bit alone
SetRegistersArgs == [1..N_k -> {RegMod - 1, RegMod \div 2}]

SetRegistersCall == \E _registers \in SetRegistersArgs : SetRegisters(_registers)

Next == Clear \/ EncodeCall \/ GetRegisters \/ SetRegistersCall

Spec == Init /\ [][Next]_vars

----------------------------------------------------------------------------
\* A decoder forking the encoder: it copies the registers, encodes on, sets the
\* registers back to the copy and encodes again. Beside the encoder runs the
\* encoder it would have been had it gone on directly from the captured state.

\* the encoder as the forking decoder's calls leave it
ForkFrame ==
    /\ UNCHANGED <<N_k, k, n, m, constraints, genpoly_representations, ctor_error>>
    /\ UNCHANGED <<histVars, matVars>>

ForkClear ==
    /\ Constructed
    /\ phase # "restored"
    /\ registers' = clear(registers)
    /\ call' = NoCall("clear")
    /\ out_symbol' = 0
    /\ ret' = FALSE
    /\ ForkFrame
    /\ UNCHANGED forkVars

ForkEncode(in_symbol, no_step) ==
    \E done \in {encode(registers, genpoly_representations, k, n, in_symbol, no_step)},
       forked \in {IF phase = "restored"
                   THEN encode(fork_registers, genpoly_representations, k, n, in_symbol, no_step)
                   ELSE [registers |-> fork_registers, out_symbol |-> fork_out, ret |-> TRUE]} :
        /\ Constructed
        /\ registers' = done.registers
        /\ out_symbol' = done.out_symbol
        /\ ret' = done.ret
        /\ call' = [op |-> "encode", in_symbol |-> in_symbol, no_step |-> no_step]
        /\ fork_registers' = forked.registers
        /\ fork_out' = forked.out_symbol
        /\ ForkFrame
        /\ UNCHANGED <<captured, phase, fork_moved>>

ForkEncodeCall == \E in_symbol \in InSymbols, no_step \in BOOLEAN : ForkEncode(in_symbol, no_step)

\* the decoder copies get_registers() to come back to this state later
Capture ==
    /\ Constructed
    /\ captured' = get_registers(registers)
    /\ phase' = "forked"
    /\ fork_registers' = registers
    /\ fork_out' = 0
    /\ fork_moved' = FALSE
    /\ call' = NoCall("get_registers")
    /\ out_symbol' = 0
    /\ ret' = FALSE
    /\ ForkFrame
    /\ UNCHANGED registers

\* the decoder comes back: set_registers(captured); the copy is used up
Restore ==
    /\ Constructed
    /\ phase = "forked"
    /\ registers' = set_registers(registers, captured)
    /\ phase' = "restored"
    /\ captured' = <<>>
    /\ fork_moved' = (registers # captured)
    /\ call' = NoCall("set_registers")
    /\ out_symbol' = 0
    /\ ret' = FALSE
    /\ ForkFrame
    /\ UNCHANGED <<fork_registers, fork_out>>

NextFork == ForkClear \/ ForkEncodeCall \/ Capture \/ Restore

ForkSpec == InitFork /\ [][NextFork]_vars

----------------------------------------------------------------------------
\* Calls on the matrix

\* the calls that return nothing
AuxFrame ==
    /\ found' = NoFound
    /\ deint_run' = 0
    /\ deint_base' = <<>>
    /\ UNCHANGED copyVars

MatFrame ==
    /\ UNCHANGED <<_nb_symbols_log2, _nb_symbols, _message_length>>
    /\ UNCHANGED <<encVars, callVars, histVars, forkVars>>
    /\ AuxFrame

EnterSymbolData(symbol_data) ==
    \E done \in {enter_symbol_data(_matrix, _message_symbol_count, _message_length,
                                   _nb_symbols, symbol_data)} :
        /\ nb_unindexed < MaxCalls
        /\ _matrix' = done.matrix
        /\ _message_symbol_count' = done.count
        /\ mat_call' = [op |-> "enter_symbol_data", index |-> 0, symbol_data |-> symbol_data]
        /\ touched' = unindexed_cells(_message_symbol_count, _message_length, _nb_symbols)
        /\ nb_unindexed' = nb_unindexed + 1
        /\ MatFrame

EnterSymbolDataAt(index, symbol_data) ==
    \E done \in {enter_symbol_data_at(_matrix, _message_symbol_count, _message_length,
                                      _nb_symbols, index, symbol_data)} :
        /\ _matrix' = done.matrix
        /\ _message_symbol_count' = done.count
        /\ mat_call' = [op |-> "enter_symbol_data_at", index |-> index, symbol_data |-> symbol_data]
        /\ touched' = indexed_cells(index, _message_length, _nb_symbols)
        /\ UNCHANGED nb_unindexed
        /\ MatFrame

EnterErasure ==
    \E done \in {enter_erasure(_matrix, _message_symbol_count, _message_length, _nb_symbols)} :
        /\ nb_unindexed < MaxCalls
        /\ _matrix' = done.matrix
        /\ _message_symbol_count' = done.count
        /\ mat_call' = NoMatCall("enter_erasure")
        /\ touched' = unindexed_cells(_message_symbol_count, _message_length, _nb_symbols)
        /\ nb_unindexed' = nb_unindexed + 1
        /\ MatFrame

EnterErasureAt(index) ==
    \E done \in {enter_erasure_at(_matrix, _message_symbol_count, _message_length,
                                  _nb_symbols, index)} :
        /\ _matrix' = done.matrix
        /\ _message_symbol_count' = done.count
        /\ mat_call' = [op |-> "enter_erasure_at", index |-> index, symbol_data |-> <<>>]
        /\ touched' = indexed_cells(index, _message_length, _nb_symbols)
        /\ UNCHANGED nb_unindexed
        /\ MatFrame

Normalize ==
    /\ _matrix' = normalize(_matrix, _nb_symbols, _message_length)
    /\ mat_call' = NoMatCall("normalize")
    /\ touched' = normalize_cells(_nb_symbols, _message_length)
    /\ UNCHANGED <<_message_symbol_count, nb_unindexed>>
    /\ MatFrame

EnterSymbolDataCall == \E symbol_data \in SymbolDataArgs : EnterSymbolData(symbol_data)

EnterSymbolDataAtCall ==
    \E index \in IndexArgs, symbol_data \in SymbolDataArgs : EnterSymbolDataAt(index, symbol_data)

EnterErasureAtCall == \E index \in IndexArgs : EnterErasureAt(index)

NextMatrix ==
    \/ EnterSymbolDataCall
    \/ EnterSymbolDataAtCall
    \/ EnterErasure
    \/ EnterErasureAtCall
    \/ Normalize

MatrixSpec == InitMatrix /\ [][NextMatrix]_vars

----------------------------------------------------------------------------
\* Searching the matrix

\* what a search leaves alone: the object and every other object
SearchFrame ==
    /\ UNCHANGED <<_nb_symbols_log2, _nb_symbols, _message_length>>
    /\ UNCHANGED <<encVars, callVars, histVars, forkVars>>
    /\ UNCHANGED <<_matrix, _message_symbol_count, nb_unindexed>>
    /\ UNCHANGED <<permVars, copyVars>>

FindMax ==
    /\ found' = find_max(_matrix, _nb_symbols, _message_length)
    /\ mat_call' = NoMatCall("find_max")
    /\ touched' = all_cells(_nb_symbols, _message_length)
    /\ SearchFrame

\* a value above every value entered
TopValue == <<2 ^ MaxLog2 + 2, 1>>

\* the bounds handed to find_max_in_col: the value the previous call
\* returned, a value above every cell, and a value in between
PrevMaxArgs == {found.value, TopValue, <<5, 2>>}

\* what the memory past the end of the buffer may hold
BeyondValues == {F0, <<1, 1>>}

FindMaxInCol(i_col, prev_max) ==
    \E beyond \in BeyondValues :
        /\ found' = find_max_in_col(_matrix, _nb_symbols, i_col, prev_max, beyond)
        /\ mat_call' = [op |-> "find_max_in_col", index |-> i_col, symbol_data |-> <<>>,
                        prev_max |-> prev_max]
        /\ touched' = find_max_in_col_cells(_nb_symbols, i_col)
        /\ SearchFrame

FindMaxInColCall == \E i_col \in IndexArgs, prev_max \in PrevMaxArgs : FindMaxInCol(i_col, prev_max)

\* the values entered before a search: those of SymbolDataArgs, or all equal
SearchDataArgs == SymbolDataArgs \cup { [ir \in 1.._nb_symbols |-> <<1, 1>>] }

SearchFill == \E symbol_data \in SearchDataArgs : EnterSymbolData(symbol_data)

NextSearch ==
    \/ SearchFill
    \/ EnterErasure
    \/ FindMax
    \/ FindMaxInColCall

SearchSpec == InitMatrix /\ [][NextSearch]_vars

----------------------------------------------------------------------------
\* Deinterleaving the matrix

InitPerm ==
    /\ EncoderIdle
    /\ \E message_length \in 0..MaxPermLen : MatrixInit(MaxLog2, message_length)

\* the values entered before deinterleaving: they tell the message position
\* t they stand for, and the symbol
PositionData(t) == [ir \in 1.._nb_symbols |-> <<t * _nb_symbols + ir, 1>>]

PermFill == \E t \in 0..(_message_length - 1) : EnterSymbolData(PositionData(t))

Deinterleave ==
    \E index_size \in index_sizes(_message_length) :
        /\ _matrix' = deinterleave(_matrix, _nb_symbols, _message_length, index_size)
        /\ mat_call' = NoMatCall("deinterleave")
        /\ touched' = deinterleave_cells(_nb_symbols, _message_length)
        /\ deint_run < 2
        /\ deint_run' = deint_run + 1
        /\ deint_base' = IF deint_run = 0 THEN _matrix ELSE deint_base
        /\ found' = NoFound
        /\ UNCHANGED copyVars
        /\ UNCHANGED <<_message_symbol_count, nb_unindexed>>
        /\ UNCHANGED <<_nb_symbols_log2, _nb_symbols, _message_length>>
        /\ UNCHANGED <<encVars, callVars, histVars, forkVars>>

NextPerm ==
    \/ PermFill
    \/ Deinterleave

PermSpec == InitPerm /\ [][NextPerm]_vars

----------------------------------------------------------------------------
\* Two matrices, the second a copy of the first

InitCopy ==
    /\ EncoderIdle
    /\ MatrixInit(MaxLog2, MaxCopyLen)

\* the calls made on the two matrices
CopyCalls ==
    { [op |-> "enter_symbol_data", symbol_data |-> [ir \in 1.._nb_symbols |-> <<ir + 1, 1>>]],
      [op |-> "enter_erasure", symbol_data |-> <<>>],
      [op |-> "normalize", symbol_data |-> <<>>],
      [op |-> "deinterleave", symbol_data |-> <<>>] }

\* the buffer and the cursor a call leaves, made on an object with this buffer and cursor
call_on(c, matrix, count, message_length, nb_symbols) ==
    CASE c.op = "enter_symbol_data" ->
           enter_symbol_data(matrix, count, message_length, nb_symbols, c.symbol_data)
      [] c.op = "enter_erasure" ->
           enter_erasure(matrix, count, message_length, nb_symbols)
      [] c.op = "normalize" ->
           [matrix |-> normalize(matrix, nb_symbols, message_length), count |-> count]
      [] c.op = "deinterleave" ->
           [matrix |-> deinterleave(matrix, nb_symbols, message_length,
                                    FloorLog2(message_length) + 1),
            count |-> count]

\* what the calls of this section leave alone
CopyFrame ==
    /\ UNCHANGED <<_nb_symbols_log2, _nb_symbols, _message_length>>
    /\ UNCHANGED <<encVars, callVars, histVars, forkVars>>
    /\ UNCHANGED <<mat_call, nb_unindexed, found, permVars, touched>>

\* the floats the copy's _matrix points to
copy_matrix == IF relmat_copy._matrix = "source" THEN _matrix ELSE copy_heap

CopyConstruct ==
    /\ relmat_copy' = copy_members(_nb_symbols_log2, _nb_symbols, _message_length,
                                    _message_symbol_count)
    /\ copy_heap' = memcpy_matrix(_matrix, _nb_symbols, _message_length)
    /\ copy_call' = NoCopyCall("copy", "ctor")
    /\ UNCHANGED <<_matrix, _message_symbol_count>>
    /\ CopyFrame

SourceCall(c) ==
    \E done \in {call_on(c, _matrix, _message_symbol_count, _message_length, _nb_symbols)} :
        /\ _matrix' = done.matrix
        /\ _message_symbol_count' = done.count
        /\ copy_call' = [on |-> "source", op |-> c.op, symbol_data |-> c.symbol_data]
        /\ UNCHANGED <<relmat_copy, copy_heap>>
        /\ CopyFrame

CopyCall(c) ==
    /\ relmat_copy.made
    /\ \E done \in {call_on(c, copy_matrix, relmat_copy._message_symbol_count,
                              relmat_copy._message_length, relmat_copy._nb_symbols)} :
          /\ relmat_copy' = [relmat_copy EXCEPT !._message_symbol_count = done.count,
                                                !.fresh = FALSE]
          /\ IF relmat_copy._matrix = "source"
             THEN _matrix' = done.matrix /\ UNCHANGED copy_heap
             ELSE copy_heap' = done.matrix /\ UNCHANGED _matrix
    /\ copy_call' = [on |-> "copy", op |-> c.op, symbol_data |-> c.symbol_data]
    /\ UNCHANGED _message_symbol_count
    /\ CopyFrame

SourceCalls == \E c \in CopyCalls : SourceCall(c)

CopyCallsMade == \E c \in CopyCalls : CopyCall(c)

NextCopy ==
    \/ CopyConstruct
    \/ SourceCalls
    \/ CopyCallsMade

CopySpec == InitCopy /\ [][NextCopy]_vars

----------------------------------------------------------------------------
\* Properties of the encoder

\* positions of the bits set in x
Bits(x) == {b \in 0..(RegBits - 1) : BitAt(x, b) = 1}

RECURSIVE TapsHit(_, _, _, _)
\* how many set register bits the generators of output j (from 0) select, over registers 1..i
TapsHit(regs, genpoly, j, i) ==
    IF i = 0 THEN 0
    ELSE Cardinality(Bits(regs[i]) \cap Bits(genpoly[i][j + 1])) + TapsHit(regs, genpoly, j, i - 1)

\* the smallest size of the generator vectors
MinTapLen == CHOOSE l \in {Len(genpoly_representations[i]) : i \in DOMAIN genpoly_representations} :
                \A i \in DOMAIN genpoly_representations : l <= Len(genpoly_representations[i])

\* the largest register length
MaxConstraint == CHOOSE c \in {constraints[i] : i \in DOMAIN constraints} :
                    \A i \in DOMAIN constraints : c >= constraints[i]

\* C1: after get_registers (copied), any calls, and set_registers(copy), the
\* registers and every output of the encodes that follow are those of the
\* encoder that went on directly from the captured state.
ForkReplayMatches ==
    phase = "restored" => registers = fork_registers /\ out_symbol = fork_out

\* C1 witness: the copy was set back over registers that had moved on, and a
\* no_step encode of the two-input encoder followed
ForkReplayReached ==
    /\ phase = "restored"
    /\ fork_moved
    /\ k = 2
    /\ call.op = "encode"
    /\ call.no_step
    /\ registers[2] >= RegMod \div 2
    /\ out_symbol # 0

\* C2: encode(x) then encode(y, no_step) leaves the registers and the output of
\* encode(y) applied where encode(x) was; with y = x the second call gives the
\* first call's output again and leaves the registers as the first left them.
ReplayMatchesDirect ==
    replay # "none" =>
        LET direct == encode(replay_base, genpoly_representations, k, n, call.in_symbol, FALSE)
        IN  /\ registers = direct.registers
            /\ out_symbol = direct.out_symbol
            /\ replay = "same" => registers = pre_registers /\ out_symbol = pre_out

\* C2 witness: a replay with another symbol from registers whose top bit was set
ReplayReached ==
    /\ replay = "other"
    /\ replay_base[1] >= RegMod \div 2
    /\ pre_registers[1] >= RegMod \div 2
    /\ out_symbol # pre_out

\* C3: encode shifts input bit i into register i (after dropping the last bit
\* when no_step), cut to the register width; output bit j < n is the parity of
\* the register bits the generators of output j select; the output bits from n
\* on are 0, the input bits from k on change nothing, and encode returns true.
EncodeComputesParity ==
    call.op = "encode" =>
        /\ \A i \in 1..k :
              registers[i] =
                  ((IF call.no_step THEN pre_registers[i] \div 2 ELSE pre_registers[i]) * 2
                   + BitAt(call.in_symbol, i - 1)) % RegMod
        /\ \A j \in 0..(n - 1) :
              BitAt(out_symbol, j) = TapsHit(registers, genpoly_representations, j, k) % 2
        /\ out_symbol < 2 ^ n
        /\ ret = TRUE

\* C3 witness: a two-input encoder took a symbol with a bit set above its k
\* bits, lost a register's top bit and gave a non-zero output
EncodeReached ==
    /\ call.op = "encode"
    /\ ~call.no_step
    /\ k = 2
    /\ call.in_symbol >= 2 ^ k
    /\ pre_registers[2] >= RegMod \div 2
    /\ out_symbol # 0

\* the encoder is the rate 1/2 code (7,5) of register length 3
IsGolden ==
    /\ ctor_error = ""
    /\ k = 1
    /\ n = 2
    /\ constraints = <<3>>
    /\ genpoly_representations = <<GoldenTaps>>

\* the reference output of the (7,5) code for GoldenIn
GoldenOut == <<3, 1, 0, 2>>

\* C4: the (7,5) encoder, cleared and fed 1,0,1,1, gives 3,1,0,2.
GoldenVector ==
    (IsGolden /\ golden_pos >= 1 /\ call.op = "encode") => out_symbol = GoldenOut[golden_pos]

\* C4 witness: the four bits were encoded
GoldenReached == IsGolden /\ golden_pos = Len(GoldenIn) /\ call.op = "encode"

\* C5: from cleared registers, encodes of the all-zero symbol give the all-zero
\* symbol and leave the registers zero; clear zeroes every register.
ZeroInZeroOut ==
    ctor_error = "" =>
        /\ zero_run => out_symbol = 0 /\ \A i \in 1..N_k : registers[i] = 0
        /\ call.op = "clear" => \A i \in 1..N_k : registers[i] = 0

\* C5 witness: an all-zero symbol was encoded with no_step, after another, by a
\* two-input encoder
ZeroReached ==
    /\ zero_run
    /\ k = 2
    /\ call.op = "encode"
    /\ call.no_step
    /\ pre_out = 0
    /\ ret

\* the five conditions under which construction is said to fail
BadConfiguration ==
    \/ Len(constraints) # N_k
    \/ Len(genpoly_representations) # N_k
    \/ \E i \in DOMAIN constraints : constraints[i] > RegBits
    \/ genpoly_representations # <<>> /\ MinTapLen <= N_k
    \/ genpoly_representations # <<>> /\ MinTapLen > SymBits

\* C6: the constructor throws exactly for the bad configurations, and encode
\* never fails.
CtorFailsExactly ==
    /\ (ctor_error # "") <=> BadConfiguration
    /\ call.op = "encode" => ret

\* C6 witness: the constructor threw for more inputs than the symbol has bits
CtorFailureReached == ctor_error = ErrInputBits

\* C7: k, n and m of a constructed encoder are the input count, the smallest
\* generator vector size and the largest register length, with
\* k < n <= symbol width and every register length within the register width,
\* in every state the calls lead to.
ParametersHold ==
    ctor_error = "" =>
        /\ k = N_k
        /\ k = Len(constraints)
        /\ n = MinTapLen
        /\ m = MaxConstraint
        /\ k < n
        /\ n <= SymBits
        /\ k < SymBits
        /\ \A i \in DOMAIN constraints : constraints[i] <= RegBits

\* C7 witness: a two-input encoder whose generator vectors and register lengths
\* differ, after set_registers
ParametersReached ==
    /\ ctor_error = ""
    /\ k = 2
    /\ Len(genpoly_representations[1]) < Len(genpoly_representations[2])
    /\ constraints[1] > constraints[2]
    /\ call.op = "set_registers"
    /\ registers[1] # 0


----------------------------------------------------------------------------
\* Properties of the reliability matrix

Min(a, b) == IF a < b THEN a ELSE b

\* cell (ir, ic) of a buffer of the matrix
Cell(matrix, ir, ic) == matrix[ic * _nb_symbols + ir + 1]

Rows == 0..(_nb_symbols - 1)

Cols == 0..(_message_length - 1)

\* column ic of the buffer as the metrics of one message position
Column(matrix, ic) == [r \in 1.._nb_symbols |-> matrix[ic * _nb_symbols + r]]

ZeroColumn == [r \in 1.._nb_symbols |-> F0]

\* every column but ic is the same in both buffers
OthersKept(before, after, ic) ==
    \A c \in Cols \ {ic} : Column(after, c) = Column(before, c)

RECURSIVE SumTo(_, _, _)
\* the sum of the cells of rows 0..ir-1 of column ic
SumTo(matrix, ic, ir) ==
    IF ir = 0 THEN F0 ELSE FAdd(SumTo(matrix, ic, ir - 1), Cell(matrix, ir - 1, ic))

ColSum(matrix, ic) == SumTo(matrix, ic, _nb_symbols)

\* a * b = c
IsProduct(a, b, c) == a[1] * b[1] * c[2] = c[1] * a[2] * b[2]

Unindexed == {"enter_symbol_data", "enter_erasure"}

Indexed == {"enter_symbol_data_at", "enter_erasure_at"}

\* what a call writes into the column it selects
Written(c) == IF c.op \in {"enter_symbol_data", "enter_symbol_data_at"}
              THEN c.symbol_data ELSE ZeroColumn

\* C8: the cursor starts at 0, never exceeds message_length and equals
\* min(number of unindexed ingestion calls, message_length); an unindexed call
\* made with cursor < message_length overwrites exactly the cursor's column
\* (with the data, or with zeros for an erasure) and advances the cursor by
\* one; made with cursor = message_length it changes nothing.
CursorStep ==
    /\ _message_symbol_count' = Min(nb_unindexed', _message_length')
    /\ mat_call'.op \in Unindexed =>
         IF _message_symbol_count < _message_length
         THEN /\ _message_symbol_count' = _message_symbol_count + 1
              /\ Column(_matrix', _message_symbol_count) = Written(mat_call')
              /\ OthersKept(_matrix, _matrix', _message_symbol_count)
         ELSE /\ _message_symbol_count = _message_length
              /\ _message_symbol_count' = _message_symbol_count
              /\ _matrix' = _matrix
    /\ mat_call'.op \notin Unindexed => _message_symbol_count' = _message_symbol_count

CursorMachine ==
    /\ _message_symbol_count = 0
    /\ nb_unindexed = 0
    /\ [][CursorStep]_vars

\* C8 witness: unindexed calls went past the last column of a matrix of
\* three columns, which hold what the calls entered
CursorReached ==
    /\ mat_call.op = "enter_symbol_data"
    /\ _message_length = 3 /\ _nb_symbols = 2
    /\ nb_unindexed > _message_length
    /\ _message_symbol_count = _message_length
    /\ Column(_matrix, 0) = ZeroColumn
    /\ Column(_matrix, 2) = <<<<2, 1>>, <<3, 1>>>>

\* C9: an indexed ingestion call never changes the cursor; with index <
\* message_length it overwrites exactly that column, with index >=
\* message_length it changes nothing; a later unindexed call still writes the
\* column selected by the count of the earlier unindexed calls.
IndexedStep ==
    /\ mat_call'.op \in Indexed =>
         /\ _message_symbol_count' = _message_symbol_count
         /\ nb_unindexed' = nb_unindexed
         /\ IF mat_call'.index < _message_length
            THEN /\ Column(_matrix', mat_call'.index) = Written(mat_call')
                 /\ OthersKept(_matrix, _matrix', mat_call'.index)
            ELSE _matrix' = _matrix
    /\ (mat_call'.op \in Unindexed /\ nb_unindexed < _message_length) =>
         /\ Column(_matrix', nb_unindexed) = Written(mat_call')
         /\ OthersKept(_matrix, _matrix', nb_unindexed)

IndexedLeavesCursor == [][IndexedStep]_vars

\* C9 witness: an indexed call has written the last column while the cursor
\* stands at column 1
IndexedReached ==
    /\ mat_call.op = "enter_symbol_data_at"
    /\ _message_length = 3 /\ _nb_symbols = 2
    /\ mat_call.index = 2
    /\ _message_symbol_count = 1
    /\ Column(_matrix, 2) = <<<<2, 1>>, <<3, 1>>>>
    /\ Column(_matrix, 1) = ZeroColumn

\* C10: normalize() divides every cell of a column whose sum S before the call
\* is not zero by S, so that the column sums to 1, leaves a column whose sum is
\* zero unchanged, and changes neither the cursor nor the dimensions.
NormalizeStep ==
    mat_call'.op = "normalize" =>
        /\ \A ic \in Cols :
             IF ColSum(_matrix, ic) # F0
             THEN /\ \A ir \in Rows :
                        IsProduct(Cell(_matrix', ir, ic), ColSum(_matrix, ic), Cell(_matrix, ir, ic))
                  /\ ColSum(_matrix', ic) = <<1, 1>>
             ELSE Column(_matrix', ic) = Column(_matrix, ic)
        /\ _message_symbol_count' = _message_symbol_count
        /\ <<_nb_symbols_log2', _nb_symbols', _message_length'>> =
               <<_nb_symbols_log2, _nb_symbols, _message_length>>
        /\ DOMAIN _matrix' = DOMAIN _matrix

NormalizeDividesColumns == [][NormalizeStep]_vars

\* C10 witness: normalize() has run on a matrix whose first and last columns
\* did not sum to zero and whose middle column, not all zero, did
NormalizeReached ==
    /\ mat_call.op = "normalize"
    /\ _message_length = 3 /\ _nb_symbols = 2
    /\ Column(_matrix, 0) = <<<<2, 5>>, <<3, 5>>>>
    /\ Column(_matrix, 1) = <<<<-1, 1>>, <<1, 1>>>>
    /\ Column(_matrix, 2) = <<<<2, 5>>, <<3, 5>>>>

----------------------------------------------------------------------------
\* Properties of the searches

NonNegative == \A i \in DOMAIN _matrix : FLe(F0, _matrix[i])

\* the cells in the order find_max scans them: columns, then rows within a column
ScanPos(ir, ic) == ic * _nb_symbols + ir

\* C11: on a matrix of non-negative values that has a cell, find_max returns a
\* value that is >= every cell and is the cell at the returned (row, col);
\* among the cells that hold the maximum the one scanned last is returned;
\* the matrix and the cursor are not modified.
FindMaxStep ==
    (mat_call'.op = "find_max" /\ NonNegative /\ _message_length >= 1) =>
        /\ found'.row \in Rows /\ found'.col \in Cols
        /\ found'.value = Cell(_matrix, found'.row, found'.col)
        /\ \A ir \in Rows, ic \in Cols :
              /\ FLe(Cell(_matrix, ir, ic), found'.value)
              /\ Cell(_matrix, ir, ic) = found'.value =>
                    ScanPos(ir, ic) <= ScanPos(found'.row, found'.col)
        /\ _matrix' = _matrix
        /\ _message_symbol_count' = _message_symbol_count

FindMaxIsLastMaximum == [][FindMaxStep]_vars

\* C11 witness: find_max has run on a matrix of three columns whose maximum 3
\* is held by columns 0 and 2, and returned the cell of column 2
FindMaxReached ==
    /\ mat_call.op = "find_max"
    /\ _message_length = 3 /\ _nb_symbols = 2
    /\ Column(_matrix, 0) = <<<<2, 1>>, <<3, 1>>>>
    /\ Column(_matrix, 1) = <<<<1, 1>>, <<1, 1>>>>
    /\ Column(_matrix, 2) = <<<<2, 1>>, <<3, 1>>>>
    /\ found = [value |-> <<3, 1>>, row |-> 1, col |-> 2]

AllZero == \A i \in DOMAIN _matrix : _matrix[i] = F0

\* C12: on a matrix in which all values are 0, and on an empty matrix,
\* find_max returns value 0.0 with row = 0 and col = 0.
FindMaxFallback ==
    (mat_call.op = "find_max" /\ AllZero) => found = [value |-> F0, row |-> 0, col |-> 0]

\* what the code does on such a matrix: the value is 0.0, and (row, col) is the
\* last cell scanned, (0, 0) only when the matrix is empty
FindMaxOnZeros ==
    (mat_call.op = "find_max" /\ AllZero) =>
        /\ found.value = F0
        /\ IF _message_length = 0
           THEN found.row = 0 /\ found.col = 0
           ELSE found.row = _nb_symbols - 1 /\ found.col = _message_length - 1

\* find_max has run on a matrix of zeros with more than one cell
FindMaxOnZerosReached ==
    /\ mat_call.op = "find_max" /\ AllZero
    /\ _message_length = 2 /\ _nb_symbols = 2
    /\ found = [value |-> F0, row |-> 1, col |-> 1]

\* the rows of column ic that hold a value strictly below bound
RowsBelow(ic, bound) == {ir \in Rows : FLt(Cell(_matrix, ir, ic), bound)}

ColumnNonNegative(ic) == \A ir \in Rows : FLe(F0, Cell(_matrix, ir, ic))

\* the last call was find_max_in_col on a column of the matrix whose values are not negative
SearchedInCol ==
    /\ mat_call.op = "find_max_in_col"
    /\ mat_call.index \in Cols
    /\ ColumnNonNegative(mat_call.index)

\* found is the largest value of the column strictly below the bound, at the
\* highest row that holds it
LargestBelow ==
    /\ found.row \in RowsBelow(mat_call.index, mat_call.prev_max)
    /\ found.value = Cell(_matrix, found.row, mat_call.index)
    /\ \A ir \in RowsBelow(mat_call.index, mat_call.prev_max) :
          /\ FLe(Cell(_matrix, ir, mat_call.index), found.value)
          /\ Cell(_matrix, ir, mat_call.index) = found.value => ir <= found.row

\* C13 as stated: every call of find_max_in_col on an in-range column of
\* non-negative values returns a value strictly below the bound that is the
\* largest cell value of the column strictly below the bound, with the highest
\* row holding it.
FindMaxInColAlwaysBelow ==
    SearchedInCol => (FLt(found.value, mat_call.prev_max) /\ LargestBelow)

\* C13 amended: when some cell of the column is strictly below the bound, the
\* call returns the largest such value, which is strictly below the bound,
\* with the highest row holding it; when no cell is, it returns 0.0 and row 0.
FindMaxInColDescends ==
    SearchedInCol =>
        IF RowsBelow(mat_call.index, mat_call.prev_max) # {}
        THEN FLt(found.value, mat_call.prev_max) /\ LargestBelow
        ELSE found.value = F0 /\ found.row = 0

\* C13 witness: with the 3 a call returned as bound, find_max_in_col has
\* returned the 2 of row 0 of the same column
FindMaxInColReached ==
    /\ SearchedInCol
    /\ _nb_symbols = 2
    /\ Column(_matrix, mat_call.index) = <<<<2, 1>>, <<3, 1>>>>
    /\ mat_call.prev_max = <<3, 1>>
    /\ found.value = <<2, 1>> /\ found.row = 0

----------------------------------------------------------------------------
\* Properties of deinterleave

RECURSIVE CeilLog2(_)
\* the least w with 2^w >= x, x >= 1
CeilLog2(x) == IF x <= 1 THEN 0 ELSE 1 + CeilLog2((x + 1) \div 2)

RECURSIVE BitReverse(_, _)
\* the number whose w bits are those of i in reverse order
BitReverse(i, w) == IF w = 0 THEN 0 ELSE (i % 2) * 2 ^ (w - 1) + BitReverse(i \div 2, w - 1)

\* the source columns in the order the destinations 0, 1, ... receive them:
\* r(i) for i = 0..W-1 in increasing order, those with r(i) < message_length
Sources ==
    LET w == CeilLog2(_message_length)
    IN  SelectSeq([i \in 1..(2 ^ w) |-> BitReverse(i - 1, w)], LAMBDA x : x < _message_length)

\* C14: for message_length >= 1 deinterleave() gives destination column d the
\* pre-call contents of source column r(i_d), r the bit reversal within
\* w = ceil(log2(message_length)) bits and i_d the d-th index with r(i) <
\* message_length; every destination is written, every source column is used
\* exactly once, and the cursor is unchanged.
DeinterleaveStep ==
    (mat_call'.op = "deinterleave" /\ _message_length >= 1) =>
        /\ Len(Sources) = _message_length
        /\ \A d \in Cols : Column(_matrix', d) = Column(_matrix, Sources[d + 1])
        /\ \A c \in Cols : Cardinality({d \in Cols : Sources[d + 1] = c}) = 1
        /\ DOMAIN _matrix' = DOMAIN _matrix
        /\ _message_symbol_count' = _message_symbol_count

DeinterleavePermutes == [][DeinterleaveStep]_vars

\* C14 witness: deinterleave() has run on a matrix of three columns that held
\* the positions 0, 1, 2, and left them in the order 0, 2, 1
DeinterleaveReached ==
    /\ mat_call.op = "deinterleave"
    /\ _message_length = 3 /\ _nb_symbols = 2
    /\ deint_run = 1
    /\ \A c \in Cols : column_at(deint_base, _nb_symbols, c) = PositionData(c)
    /\ Column(_matrix, 0) = PositionData(0)
    /\ Column(_matrix, 1) = PositionData(2)
    /\ Column(_matrix, 2) = PositionData(1)

IsPowerOfTwo(x) == x >= 1 /\ 2 ^ FloorLog2(x) = x

\* the columns of the buffer hold the positions order[1], order[2], ...
HoldsPositions(matrix, order) ==
    \A c \in Cols : column_at(matrix, _nb_symbols, c) = PositionData(order[c + 1])

\* C15 (step): for a message_length that is a power of two, deinterleave()
\* gives destination column d the source column bitreverse(d).
BitReverseStep ==
    (mat_call'.op = "deinterleave" /\ IsPowerOfTwo(_message_length)) =>
        \A d \in Cols :
            Column(_matrix', d) = Column(_matrix, BitReverse(d, FloorLog2(_message_length)))

\* C15: deinterleave undoes the bit-reversal interleave: for message_length = 4
\* columns held in the order 0, 2, 1, 3 are restored to 0, 1, 2, 3; for every
\* power-of-two message_length destination d receives source bitreverse(d),
\* and deinterleave applied twice restores the matrix.
DeinterleaveUndoesInterleave ==
    /\ [][BitReverseStep]_vars
    /\ [](( /\ deint_run = 1
            /\ _message_length = 4
            /\ HoldsPositions(deint_base, <<0, 2, 1, 3>>) ) =>
           HoldsPositions(_matrix, <<0, 1, 2, 3>>))
    /\ []((deint_run = 2 /\ IsPowerOfTwo(_message_length)) => _matrix = deint_base)

\* C15 witness: deinterleave() has run twice on a matrix of four columns held
\* in the order 0, 2, 1, 3
InterleaveUndone ==
    /\ mat_call.op = "deinterleave"
    /\ deint_run = 2
    /\ _message_length = 4 /\ _nb_symbols = 2
    /\ HoldsPositions(deint_base, <<0, 2, 1, 3>>)
    /\ HoldsPositions(_matrix, <<0, 2, 1, 3>>)

----------------------------------------------------------------------------
\* Properties of the accesses to the buffer

\* the indexes of the buffer: [0, nb_symbols * message_length)
BufferIndexes == 0..(_nb_symbols * _message_length - 1)

\* C16: whatever the arguments, every read or write of the buffer by a matrix
\* operation uses an index in [0, nb_symbols * message_length).
NoMatrixFault == touched \subseteq BufferIndexes

\* every call but find_max_in_col stays inside the buffer, and so does
\* find_max_in_col on a column of the matrix
OnlyFindMaxInColFaults ==
    (mat_call.op # "find_max_in_col" \/ mat_call.index \in Cols) => touched \subseteq BufferIndexes

\* find_max_in_col has read past the end of the buffer
MatrixFaultReached ==
    /\ mat_call.op = "find_max_in_col"
    /\ _message_length = 1 /\ _nb_symbols = 1
    /\ mat_call.index = 1
    /\ touched = {1}

----------------------------------------------------------------------------
\* Properties of the copy constructor

\* C17 (steps): a call on one of the two matrices leaves the cells of the other unchanged.
IndependentStep ==
    /\ (copy_call'.on = "source" /\ relmat_copy.made) => copy_matrix' = copy_matrix
    /\ (copy_call'.on = "copy" /\ copy_call'.op # "ctor") => _matrix' = _matrix

\* C17: a copy-constructed matrix has the nb_symbols, the message_length and
\* the cells of its source at the time of copying, and afterwards any ingestion,
\* normalize or deinterleave call on either matrix leaves the cells of the
\* other unchanged.
CopyIsDeepAndIndependent ==
    /\ []((copy_call.on = "copy" /\ copy_call.op = "ctor") =>
            /\ relmat_copy._nb_symbols = _nb_symbols
            /\ relmat_copy._nb_symbols_log2 = _nb_symbols_log2
            /\ relmat_copy._message_length = _message_length
            /\ copy_matrix = _matrix)
    /\ [][IndependentStep]_vars

\* C17 witness: after the copy was made of a matrix holding 2, 3 in column 0,
\* the copy was normalized and the source deinterleaved; the two differ
CopyDiverged ==
    /\ relmat_copy.made
    /\ copy_call = [on |-> "source", op |-> "deinterleave", symbol_data |-> <<>>]
    /\ _message_length = 3
    /\ column_at(_matrix, _nb_symbols, 0)[1] = <<2, 1>>
    /\ column_at(_matrix, _nb_symbols, 2)[1] = <<0, 1>>
    /\ column_at(copy_matrix, _nb_symbols, 0)[1] # <<2, 1>>
    /\ column_at(copy_matrix, _nb_symbols, 0)[1] # <<0, 1>>
    /\ column_at(copy_matrix, _nb_symbols, 1)[1] # <<0, 1>>

\* C20 (step): the first unindexed ingestion call on a copy writes column 0 of
\* the copy, leaves its other columns alone and moves its cursor to 1.
FirstCopyCallStep ==
    (relmat_copy.fresh /\ copy_call'.on = "copy"
        /\ copy_call'.op \in {"enter_symbol_data", "enter_erasure"}) =>
        /\ column_at(copy_matrix', _nb_symbols, 0) =
               (IF copy_call'.op = "enter_symbol_data" THEN copy_call'.symbol_data ELSE ZeroColumn)
        /\ \A c \in Cols \ {0} :
               column_at(copy_matrix', _nb_symbols, c) = column_at(copy_matrix, _nb_symbols, c)
        /\ relmat_copy'._message_symbol_count = 1

\* C20: a copy-constructed matrix starts with its cursor at column 0 whatever
\* the cursor of the source was, so the first unindexed enter_symbol_data or
\* enter_erasure on a copy (message_length >= 1) overwrites column 0 of the copy.
CopyStartsAtColumnZero ==
    /\ [](relmat_copy.fresh => relmat_copy._message_symbol_count = 0)
    /\ [][FirstCopyCallStep]_vars

\* C20 witness: the source was full, with 2, 3, ... in column 0, when it was
\* copied, and the first call on the copy, an erasure, has zeroed column 0 of the copy
CopyRestarted ==
    /\ copy_call = [on |-> "copy", op |-> "enter_erasure", symbol_data |-> <<>>]
    /\ relmat_copy._message_symbol_count = 1
    /\ _message_symbol_count = _message_length
    /\ _message_length >= 2
    /\ column_at(_matrix, _nb_symbols, 0)[1] = <<2, 1>>
    /\ column_at(copy_matrix, _nb_symbols, 0) = ZeroColumn
    /\ column_at(copy_matrix, _nb_symbols, 1)[1] = <<2, 1>>

----------------------------------------------------------------------------
\* normalize() against a pipeline without the one-step lag

RECURSIVE column_sum(_, _, _, _)
\* the sum of column ic, the rows added in increasing order
column_sum(matrix, nb_symbols, ic, ir) ==
    IF ir = 0 THEN F0
    ELSE FAdd(column_sum(matrix, nb_symbols, ic, ir - 1), matrix[ic * nb_symbols + ir])

RECURSIVE same_step_cols(_, _, _, _)
\* at step ic the sum of column ic is computed and column ic is divided by it
same_step_cols(matrix, nb_symbols, message_length, ic) ==
    IF ic >= message_length THEN matrix
    ELSE LET col_sum == column_sum(matrix, nb_symbols, ic, nb_symbols)
             divided == IF col_sum # F0
                        THEN [i \in DOMAIN matrix |->
                                 IF ic * nb_symbols < i /\ i <= ic * nb_symbols + nb_symbols
                                 THEN FDiv(matrix[i], col_sum) ELSE matrix[i]]
                        ELSE matrix
         IN  same_step_cols(divided, nb_symbols, message_length, ic + 1)

normalize_same_step(matrix, nb_symbols, message_length) ==
    same_step_cols(matrix, nb_symbols, message_length, 0)

\* the buffers of the dimensions of the matrix, cells 0, 1, 2 or -1
LagMatrices == [DOMAIN _matrix -> {F0, <<1, 1>>, <<2, 1>>, <<-1, 1>>}]

\* C18 as stated: the lag is observable: there are matrices (here: among
\* those of two rows and three columns) on which normalize() and the pipeline
\* that sums and divides a column in the same step leave different values.
LagObservable ==
    (_nb_symbols = 2 /\ _message_length = 3) =>
        \E matrix \in LagMatrices :
            normalize(matrix, _nb_symbols, _message_length) #
                normalize_same_step(matrix, _nb_symbols, _message_length)

\* C18 amended: the lag is not observable: normalize() leaves in every column,
\* the boundary columns included, the values the same-step pipeline leaves.
LagStep ==
    mat_call'.op = "normalize" =>
        _matrix' = normalize_same_step(_matrix, _nb_symbols, _message_length)

LagNotObservable == [][LagStep]_vars

\* C18 witness: normalize() has divided both boundary columns of a matrix of
\* three columns, the last by -1
LagReached ==
    /\ mat_call.op = "normalize"
    /\ _message_length = 3 /\ _nb_symbols = 1
    /\ _message_symbol_count = 3
    /\ _matrix = <<<<1, 1>>, <<0, 1>>, <<1, 1>>>>
    /\ touched = {0, 1, 2}

----------------------------------------------------------------------------
\* The history a register holds

\* C19: from cleared state, after any sequence of encode calls register i holds
\* only the most recent constraints[i] input bits: its value is below
\* 2^constraints[i].
RegistersWithinConstraints ==
    \A i \in 1..k : registers[i] < 2 ^ constraints[i]

\* what the code keeps: the most recent bits that fit the register type
RegistersWithinWidth ==
    \A i \in 1..k : registers[i] < 2 ^ RegBits

\* a register of constraint length 2 holds three input bits
RegisterBeyondConstraint ==
    /\ call.op = "encode"
    /\ k = 2
    /\ constraints[2] = 2
    /\ registers[2] = 7

====
